---- MODULE Spec2Model ----
(***************************************************************************)
(* The three OpenReview scripts of the SEA workshop repository:            *)
(*   make_decision.py, extract_author_ids.py, extract_accepted_papers.py.  *)
(* Python strings are sequences of one-character strings, so that lower(), *)
(* strip(), substring tests and the score regular expression are computed  *)
(* character by character.                                                 *)
(***************************************************************************)
EXTENDS Integers, Sequences, FiniteSets, TLC

(***************************************************************************)
(* Python str                                                              *)
(***************************************************************************)
UpperAlpha ==
  <<"A","B","C","D","E","F","G","H","I","J","K","L","M",
    "N","O","P","Q","R","S","T","U","V","W","X","Y","Z">>

LowerAlpha ==
  <<"a","b","c","d","e","f","g","h","i","j","k","l","m",
    "n","o","p","q","r","s","t","u","v","w","x","y","z">>

DigitChars == <<"0","1","2","3","4","5","6","7","8","9">>

Whitespace == {" ", "\t", "\n"}

LowerChar(c) ==
  IF \E i \in DOMAIN UpperAlpha : UpperAlpha[i] = c
    THEN LowerAlpha[CHOOSE i \in DOMAIN UpperAlpha : UpperAlpha[i] = c]
    ELSE c

\* str.lower()
StrLower(s) == [i \in 1..Len(s) |-> LowerChar(s[i])]

\* sub in s
StrContains(s, sub) ==
  \E i \in 0..(Len(s) - Len(sub)) : SubSeq(s, i + 1, i + Len(sub)) = sub

\* s.startswith(p)
StrStartsWith(s, p) == Len(s) >= Len(p) /\ SubSeq(s, 1, Len(p)) = p

\* s.replace(" ", "")
StrRemoveSpaces(s) == SelectSeq(s, LAMBDA c : c # " ")

IsSpace(c) == c \in Whitespace

IsDigit(c) == \E i \in DOMAIN DigitChars : DigitChars[i] = c

DigitVal(c) == (CHOOSE i \in DOMAIN DigitChars : DigitChars[i] = c) - 1

\* number of whitespace characters of s from position i on
RECURSIVE SpacesFrom(_, _)
SpacesFrom(s, i) ==
  IF i <= Len(s) /\ IsSpace(s[i]) THEN 1 + SpacesFrom(s, i + 1) ELSE 0

\* number of decimal digits of s from position i on
RECURSIVE DigitsFrom(_, _)
DigitsFrom(s, i) ==
  IF i <= Len(s) /\ IsDigit(s[i]) THEN 1 + DigitsFrom(s, i + 1) ELSE 0

RECURSIVE TrailingSpaces(_, _)
TrailingSpaces(s, i) ==
  IF i >= 1 /\ IsSpace(s[i]) THEN 1 + TrailingSpaces(s, i - 1) ELSE 0

\* str.strip()
StrStrip(s) ==
  LET a == SpacesFrom(s, 1)
      b == TrailingSpaces(s, Len(s))
  IN IF a = Len(s) THEN <<>> ELSE SubSeq(s, a + 1, Len(s) - b)

\* value of a sequence of decimal digits
RECURSIVE DigitsVal(_)
DigitsVal(s) ==
  IF s = <<>> THEN 0
  ELSE 10 * DigitsVal(SubSeq(s, 1, Len(s) - 1)) + DigitVal(s[Len(s)])

RECURSIVE Pow10(_)
Pow10(k) == IF k = 0 THEN 1 ELSE 10 * Pow10(k - 1)

\* decimal digits of a natural number
RECURSIVE NatStr(_)
NatStr(n) ==
  IF n < 10 THEN <<DigitChars[n + 1]>>
  ELSE NatStr(n \div 10) \o <<DigitChars[(n % 10) + 1]>>

IntStr(n) == IF n < 0 THEN <<"-">> \o NatStr(0 - n) ELSE NatStr(n)

(***************************************************************************)
(* Python values held in a note's content.  w tells whether the field is   *)
(* the plain value, the wrapped form {"value": v}, or a dict with no       *)
(* "value" key; t is the type of v: None, str, int, float n/d with d a     *)
(* power of ten, or a list l of strings.                                   *)
(***************************************************************************)
VNone == [w |-> "plain", t |-> "none", s |-> <<>>, n |-> 0, d |-> 1, l |-> <<>>]

VStr(str) == [w |-> "plain", t |-> "str", s |-> str, n |-> 0, d |-> 1, l |-> <<>>]

VInt(i) == [w |-> "plain", t |-> "int", s |-> <<>>, n |-> i, d |-> 1, l |-> <<>>]

VFloat(num, den) == [w |-> "plain", t |-> "float", s |-> <<>>, n |-> num, d |-> den, l |-> <<>>]

VList(items) == [w |-> "plain", t |-> "list", s |-> <<>>, n |-> 0, d |-> 1, l |-> items]

Wrapped(v) == [v EXCEPT !.w = "wrapped"]

DictNoValue == [w |-> "nokey", t |-> "none", s |-> <<>>, n |-> 0, d |-> 1, l |-> <<>>]

IsDict(v) == v.w # "plain"

\* val.get("value")
DictGetValue(v) == IF v.w = "wrapped" THEN [v EXCEPT !.w = "plain"] ELSE VNone

\* val.get("value", "")
DictGetValueOrEmpty(v) == IF v.w = "wrapped" THEN [v EXCEPT !.w = "plain"] ELSE VStr(<<>>)

\* digits of the fraction num/den after the point
RECURSIVE FracStr(_, _)
FracStr(num, den) ==
  IF num = 0 THEN <<>>
  ELSE <<DigitChars[((num * 10) \div den) + 1]>> \o FracStr((num * 10) % den, den)

\* sep.join(items)
RECURSIVE StrJoin(_, _)
StrJoin(sep, items) ==
  IF items = <<>> THEN <<>>
  ELSE IF Len(items) = 1 THEN items[1]
  ELSE items[1] \o sep \o StrJoin(sep, Tail(items))

\* str(v) of a plain value
PyStr(v) ==
  CASE v.t = "none" -> <<"N","o","n","e">>
    [] v.t = "list" ->
         <<"[">> \o StrJoin(<<","," ">>, [i \in 1..Len(v.l) |-> <<"'">> \o v.l[i] \o <<"'">>])
                 \o <<"]">>
    [] v.t = "str" -> v.s
    [] v.t = "int" -> IntStr(v.n)
    [] v.t = "float" ->
         IF v.n % v.d = 0 THEN NatStr(v.n \div v.d) \o <<".","0">>
         ELSE NatStr(v.n \div v.d) \o <<".">> \o FracStr(v.n % v.d, v.d)

\* truth value of a plain value
PyTruthy(v) ==
  CASE v.t = "none" -> FALSE
    [] v.t = "str" -> v.s # <<>>
    [] v.t = "int" -> v.n # 0
    [] v.t = "float" -> v.n # 0
    [] v.t = "list" -> v.l # <<>>

\* a content mapping is a sequence of [k, v] items in insertion order
HasKey(content, key) == \E i \in DOMAIN content : content[i].k = key

GetKey(content, key) == content[CHOOSE i \in DOMAIN content : content[i].k = key].v

\* optional numbers
NoNum == [some |-> FALSE, n |-> 0, d |-> 1]

SomeNum(num, den) == [some |-> TRUE, n |-> num, d |-> den]

NumEq(a, b) == a.some = b.some /\ (a.some => a.n * b.d = b.n * a.d)

\* optional strings
NoStr == [some |-> FALSE, s |-> <<>>]

SomeStr(str) == [some |-> TRUE, s |-> str]

\* optional integers (note.number, note.cdate)
NoInt == [some |-> FALSE, v |-> 0]

SomeInt(i) == [some |-> TRUE, v |-> i]

\* note.content or {}
ContentOf(note) == IF note.has_content THEN note.content ELSE <<>>

(***************************************************************************)
(* make_decision.py: helpers                                               *)
(***************************************************************************)
VENUE_ID == "NeurIPS.cc/2025/Workshop/SEA"

\* the candidates of find_submission_invitation, in priority order
candidates ==
  << "NeurIPS.cc/2025/Workshop/SEA/-/-/Blind_Submission",
     "NeurIPS.cc/2025/Workshop/SEA/-/-/Blind_Submission2",
     "NeurIPS.cc/2025/Workshop/SEA/-/-/Submission",
     "NeurIPS.cc/2025/Workshop/SEA/-/-/Paper",
     "NeurIPS.cc/2025/Workshop/SEA/-/Submission",
     "NeurIPS.cc/2025/Workshop/SEA/-/Blind_Submission" >>

\* re.match(r"\s*([0-9]+(\.[0-9]+)?)", s), then float(m.group(1))
MatchLeadingNumber(s) ==
  LET a == SpacesFrom(s, 1)
      di == DigitsFrom(s, a + 1)
      p == a + di + 1
      fr == IF p <= Len(s) /\ s[p] = "." THEN DigitsFrom(s, p + 1) ELSE 0
      ip == DigitsVal(SubSeq(s, a + 1, a + di))
  IN IF di = 0 THEN NoNum
     ELSE IF fr = 0 THEN SomeNum(ip, 1)
     ELSE SomeNum(ip * Pow10(fr) + DigitsVal(SubSeq(s, p + 1, p + fr)), Pow10(fr))

parse_numeric_score(value) ==
  CASE value.t = "none" -> NoNum
    [] value.t = "int" -> SomeNum(value.n, 1)
    [] value.t = "float" -> SomeNum(value.n, value.d)
    [] value.t \in {"str", "list"} -> MatchLeadingNumber(PyStr(value))

IsReviewInvitation(note) ==
  LET inv == StrLower(IF note.invitations # <<>> THEN note.invitations[1] ELSE <<>>)
  IN /\ StrContains(inv, <<"r","e","v","i","e","w">>)
     /\ \/ StrContains(inv, <<"o","f","f","i","c","i","a","l">>)
        \/ StrContains(inv, <<"r","e","v","i","e","w">>)

get_reviews_for_forum(replies) == SelectSeq(replies, IsReviewInvitation)

score_fields ==
  << <<"r","a","t","i","n","g">>,
     <<"o","v","e","r","a","l","l","_","a","s","s","e","s","s","m","e","n","t">>,
     <<"o","v","e","r","a","l","l"," ","r","e","c","o","m","m","e","n","d","a","t","i","o","n">>,
     <<"o","v","e","r","a","l","l","_","r","e","c","o","m","m","e","n","d","a","t","i","o","n">>,
     <<"r","e","c","o","m","m","e","n","d","a","t","i","o","n">>,
     <<"o","v","e","r","a","l","l">>,
     <<"o","v","e","r","a","l","l","_","s","c","o","r","e">> >>

\* k.replace(" ", "").lower()
NormKey(k) == StrLower(StrRemoveSpaces(k))

\* the candidates list built for one key: the exact key, else the first item
\* whose key matches case- and space-insensitively
ScoreCandidates(content, key) ==
  IF HasKey(content, key) THEN <<GetKey(content, key)>>
  ELSE LET hits == {i \in DOMAIN content : NormKey(content[i].k) = NormKey(key)}
       IN IF hits = {} THEN <<>>
          ELSE <<content[CHOOSE i \in hits : \A j \in hits : i <= j].v>>

\* the score the candidates of one key yield, if any
KeyScore(content, key) ==
  LET cands == ScoreCandidates(content, key)
  IN IF cands = <<>> THEN NoNum
     ELSE parse_numeric_score(IF IsDict(cands[1]) THEN DictGetValue(cands[1]) ELSE cands[1])

\* the loop over score_fields for one review, from field k on; `scores` is the
\* list shared by all reviews, and the loop stops as soon as it is non-empty
RECURSIVE TryScoreFields(_, _, _)
TryScoreFields(scores, content, k) ==
  IF k > Len(score_fields) THEN scores
  ELSE LET sc == KeyScore(content, score_fields[k])
           appended == IF sc.some THEN Append(scores, sc) ELSE scores
       IN IF appended # <<>> THEN appended
          ELSE TryScoreFields(appended, content, k + 1)

RECURSIVE CollectScores(_, _, _)
CollectScores(scores, review_notes, i) ==
  IF i > Len(review_notes) THEN scores
  ELSE CollectScores(TryScoreFields(scores, ContentOf(review_notes[i]), 1), review_notes, i + 1)

\* sum(scores) as a fraction
RECURSIVE SumScores(_)
SumScores(scores) ==
  IF scores = <<>> THEN SomeNum(0, 1)
  ELSE LET rest == SumScores(Tail(scores))
       IN SomeNum(scores[1].n * rest.d + rest.n * scores[1].d, scores[1].d * rest.d)

average_review_score(review_notes) ==
  LET scores == CollectScores(<<>>, review_notes, 1)
      total == SumScores(scores)
  IN IF scores = <<>> THEN NoNum ELSE SomeNum(total.n, total.d * Len(scores))

IsMetaReviewInvitation(note) ==
  /\ note.invitations # <<>>
  /\ \/ StrContains(note.invitations[1], <<"M","e","t","a","_","R","e","v","i","e","w">>)
     \/ StrContains(note.invitations[1], <<"M","e","t","a","-","R","e","v","i","e","w">>)

\* x.cdate or 0
CdateKey(note) == IF note.cdate.some THEN note.cdate.v ELSE 0

\* sorted(notes, key=cdate or 0, reverse=True): stable, so equal keys keep
\* their input order
RECURSIVE SortedByCdateDesc(_)
SortedByCdateDesc(notes) ==
  IF notes = <<>> THEN <<>>
  ELSE LET sorted == SortedByCdateDesc(SubSeq(notes, 1, Len(notes) - 1))
           x == notes[Len(notes)]
           keep == Cardinality({i \in DOMAIN sorted : CdateKey(sorted[i]) >= CdateKey(x)})
       IN SubSeq(sorted, 1, keep) \o <<x>> \o SubSeq(sorted, keep + 1, Len(sorted))

\* mutation: sorted without reverse=True, the oldest meta-review first
LatestMetaReview_Oldest(meta_candidates) ==
  SortedByCdateDesc(meta_candidates)[Len(meta_candidates)]

LatestMetaReview(meta_candidates) == SortedByCdateDesc(meta_candidates)[1]

decision_fields ==
  << <<"r","e","c","o","m","m","e","n","d","a","t","i","o","n">>,
     <<"f","i","n","a","l","_","r","e","c","o","m","m","e","n","d","a","t","i","o","n">>,
     <<"f","i","n","a","l"," ","d","e","c","i","s","i","o","n">>,
     <<"d","e","c","i","s","i","o","n">> >>

\* the loop over decision_fields: the first key present in content decides
RECURSIVE DecisionFromContent(_, _)
DecisionFromContent(content, k) ==
  IF k > Len(decision_fields) THEN NoStr
  ELSE IF HasKey(content, decision_fields[k])
    THEN LET raw == GetKey(content, decision_fields[k])
             val == IF IsDict(raw) THEN DictGetValueOrEmpty(raw) ELSE raw
         IN IF PyTruthy(val) THEN SomeStr(StrStrip(PyStr(val))) ELSE NoStr
    ELSE DecisionFromContent(content, k + 1)

get_decision_for_forum(replies) ==
  LET meta_candidates == SelectSeq(replies, IsMetaReviewInvitation)
  IN IF meta_candidates # <<>>
       THEN DecisionFromContent(ContentOf(LatestMetaReview(meta_candidates)), 1)
       ELSE NoStr

\* int(v) of a plain value: [some |-> FALSE] when it raises
PyInt(v) ==
  CASE v.t = "none" -> NoInt
    [] v.t = "int" -> SomeInt(v.n)
    [] v.t = "float" -> SomeInt(v.n \div v.d)
    [] v.t = "list" -> NoInt
    [] v.t = "str" ->
         LET body == StrStrip(v.s)
         IN IF body # <<>> /\ DigitsFrom(body, 1) = Len(body)
              THEN SomeInt(DigitsVal(body)) ELSE NoInt

number_fields ==
  << <<"n","u","m","b","e","r">>,
     <<"p","a","p","e","r","_","n","u","m","b","e","r">>,
     <<"s","u","b","m","i","s","s","i","o","n","_","n","u","m","b","e","r">> >>

\* the loop of get_paper_number over the content fields, from field k on
RECURSIVE NumberFromContent(_, _)
NumberFromContent(content, k) ==
  IF k > Len(number_fields) THEN NoInt
  ELSE LET raw == IF HasKey(content, number_fields[k])
                    THEN GetKey(content, number_fields[k]) ELSE VNone
           v == IF IsDict(raw) THEN DictGetValue(raw) ELSE raw
       IN IF v.t # "none" /\ PyInt(v).some THEN PyInt(v)
          ELSE NumberFromContent(content, k + 1)

get_paper_number(note) ==
  IF note.number.some THEN SomeInt(note.number.v)
  ELSE NumberFromContent(ContentOf(note), 1)

(***************************************************************************)
(* State                                                                   *)
(***************************************************************************)
VARIABLES
  \* the OpenReview server, as make_decision.py sees it
  server_invitations,        \* the invitation ids get_invitation finds
  server_submissions,        \* the notes iterget_notes returns for the invitation
  \* make_decision.py main
  md_pc, md_exit, probed, sub_inv, submissions, idx, rows,
  flagged_low_score_accept, paper_no, decision, decision_str, reviews,
  avg_score, accepted, sea_decisions_csv, sea_flagged_csv,
  \* the OpenReview server, as extract_author_ids.py sees it
  server_groups,             \* group id -> the group get_group returns, if any
  server_profiles_down,      \* get_profiles raises OpenReviewException
  server_profile_requests,   \* the member lists get_profiles was called with
  \* extract_author_ids.py main
  ea_pc, author_groups, g_idx, all_profile_ids, missing_groups, resolved,
  submissions_counter, author_ids_json,
  \* the OpenReview server, as extract_accepted_papers.py sees it
  server_venue_notes,        \* the notes whose venueid is VENUE_ID
  \* extract_accepted_papers.py main
  ap_pc, venue_notes, ap_idx, venue_field, pres_type, accepted_papers, output_csv

md_vars ==
  << server_invitations, server_submissions, md_pc, md_exit, probed, sub_inv,
     submissions, idx, rows, flagged_low_score_accept, paper_no, decision,
     decision_str, reviews, avg_score, accepted, sea_decisions_csv, sea_flagged_csv >>

ea_vars ==
  << server_groups, server_profiles_down, server_profile_requests, ea_pc, author_groups,
     g_idx, all_profile_ids, missing_groups, resolved, submissions_counter,
     author_ids_json >>

ap_vars ==
  << server_venue_notes, ap_pc, venue_notes, ap_idx, venue_field, pres_type,
     accepted_papers, output_csv >>

vars == << md_vars, ea_vars, ap_vars >>

NotWritten == [written |-> FALSE, rows |-> <<>>]

Written(r) == [written |-> TRUE, rows |-> r]

\* sequences over S of length at most n
SeqsUpTo(S, n) == UNION {[1..k -> S] : k \in 0..n}

(***************************************************************************)
(* make_decision.py: main                                                  *)
(***************************************************************************)
\* client.get_invitation(inv) returns: find_submission_invitation returns inv
ProbeFound ==
  /\ md_pc = "find"
  /\ Len(probed) < Len(candidates)
  /\ candidates[Len(probed) + 1] \in server_invitations
  /\ probed' = Append(probed, candidates[Len(probed) + 1])
  /\ sub_inv' = SomeStr(candidates[Len(probed) + 1])
  /\ md_pc' = "fetch"
  /\ UNCHANGED << server_invitations, server_submissions, md_exit, submissions, idx,
                  rows, flagged_low_score_accept, paper_no, decision, decision_str,
                  reviews, avg_score, accepted, sea_decisions_csv, sea_flagged_csv >>
  /\ UNCHANGED << ea_vars, ap_vars >>

\* client.get_invitation(inv) raises OpenReviewException: continue
ProbeMissing ==
  /\ md_pc = "find"
  /\ Len(probed) < Len(candidates)
  /\ candidates[Len(probed) + 1] \notin server_invitations
  /\ probed' = Append(probed, candidates[Len(probed) + 1])
  /\ UNCHANGED << server_invitations, server_submissions, md_pc, md_exit, sub_inv,
                  submissions, idx, rows, flagged_low_score_accept, paper_no, decision,
                  decision_str, reviews, avg_score, accepted, sea_decisions_csv,
                  sea_flagged_csv >>
  /\ UNCHANGED << ea_vars, ap_vars >>

\* mutation: the RuntimeError is swallowed and main goes on to fetch
NoInvitation_GoesOn ==
  /\ md_pc = "find"
  /\ Len(probed) = Len(candidates)
  /\ md_pc' = "fetch"
  /\ UNCHANGED << server_invitations, server_submissions, md_exit, probed, sub_inv,
                  submissions, idx, rows, flagged_low_score_accept, paper_no, decision,
                  decision_str, reviews, avg_score, accepted, sea_decisions_csv,
                  sea_flagged_csv >>
  /\ UNCHANGED << ea_vars, ap_vars >>

\* the loop ends: RuntimeError, caught by main, sys.exit(2)
NoInvitation ==
  /\ md_pc = "find"
  /\ Len(probed) = Len(candidates)
  /\ md_pc' = "exit"
  /\ md_exit' = SomeInt(2)
  /\ UNCHANGED << server_invitations, server_submissions, probed, sub_inv, submissions,
                  idx, rows, flagged_low_score_accept, paper_no, decision, decision_str,
                  reviews, avg_score, accepted, sea_decisions_csv, sea_flagged_csv >>
  /\ UNCHANGED << ea_vars, ap_vars >>

\* submissions = list(iter_notes(...)); sys.exit(0) when there is none
FetchSubmissions ==
  /\ md_pc = "fetch"
  /\ submissions' = server_submissions
  /\ IF server_submissions = <<>>
       THEN md_pc' = "exit" /\ md_exit' = SomeInt(0)
       ELSE md_pc' = "loop" /\ md_exit' = md_exit
  /\ UNCHANGED << server_invitations, server_submissions, probed, sub_inv, idx, rows,
                  flagged_low_score_accept, paper_no, decision, decision_str, reviews,
                  avg_score, accepted, sea_decisions_csv, sea_flagged_csv >>
  /\ UNCHANGED << ea_vars, ap_vars >>

\* paper_no of main: get_paper_number, else sub.number, else -1
PaperNoOf(sub) ==
  IF get_paper_number(sub).some THEN get_paper_number(sub).v
  ELSE IF sub.number.some THEN sub.number.v ELSE -1

\* decision_str = (decision or "").strip()
DecisionStrOf(d) == StrStrip(IF d.some /\ d.s # <<>> THEN d.s ELSE <<>>)

\* accepted = decision_str.lower().startswith("accept")
IsAccepted(ds) == StrStartsWith(StrLower(ds), <<"a","c","c","e","p","t">>)

\* mutation: avg_score <= 4.0
IsLowScoreAccept_Inclusive(acc, avg) == acc /\ avg.some /\ avg.n <= 4 * avg.d

\* accepted and (avg_score is not None) and (avg_score < 4.0)
IsLowScoreAccept(acc, avg) == acc /\ avg.some /\ avg.n < 4 * avg.d

\* one iteration of the loop over submissions
ProcessSubmission ==
  /\ md_pc = "loop"
  /\ idx < Len(submissions)
  /\ LET sub == submissions[idx + 1]
         no == PaperNoOf(sub)
         dec == get_decision_for_forum(sub.replies)
         ds == DecisionStrOf(dec)
         revs == get_reviews_for_forum(sub.replies)
         avg == average_review_score(revs)
         acc == IsAccepted(ds)
     IN /\ paper_no' = SomeInt(no)
        /\ decision' = dec
        /\ decision_str' = ds
        /\ reviews' = revs
        /\ avg_score' = avg
        /\ accepted' = acc
        /\ flagged_low_score_accept' =
             IF IsLowScoreAccept(acc, avg)
               THEN Append(flagged_low_score_accept, no)
               ELSE flagged_low_score_accept
        /\ rows' = Append(rows, [paper_number |-> no, decision |-> ds, comment |-> <<>>])
  /\ idx' = idx + 1
  /\ UNCHANGED << server_invitations, server_submissions, md_pc, md_exit, probed, sub_inv,
                  submissions, sea_decisions_csv, sea_flagged_csv >>
  /\ UNCHANGED << ea_vars, ap_vars >>

\* the orders sort_values("paper_number") may give: its default sort is not
\* stable, so rows with equal paper numbers come in any order
SortedRows(rs) ==
  { [i \in 1..Len(rs) |-> rs[p[i]]] :
      p \in { q \in [1..Len(rs) -> 1..Len(rs)] :
                /\ \A i, j \in 1..Len(rs) : i # j => q[i] # q[j]
                /\ \A i, j \in 1..Len(rs) :
                     i < j => rs[q[i]].paper_number <= rs[q[j]].paper_number } }

\* sorted(set(xs)) of a list of integers
RECURSIVE SortedSet(_)
SortedSet(S) ==
  IF S = {} THEN <<>>
  ELSE LET m == CHOOSE x \in S : \A y \in S : x <= y
       IN <<m>> \o SortedSet(S \ {m})

\* the two CSV files are written after the loop
WriteCsvs ==
  /\ md_pc = "loop"
  /\ idx = Len(submissions)
  /\ \E sorted \in SortedRows(rows) : sea_decisions_csv' = Written(sorted)
  /\ sea_flagged_csv' =
       Written(SortedSet({flagged_low_score_accept[i] : i \in DOMAIN flagged_low_score_accept}))
  /\ md_pc' = "exit"
  /\ md_exit' = SomeInt(0)
  /\ UNCHANGED << server_invitations, server_submissions, probed, sub_inv, submissions,
                  idx, rows, flagged_low_score_accept, paper_no, decision, decision_str,
                  reviews, avg_score, accepted >>
  /\ UNCHANGED << ea_vars, ap_vars >>

MdInit ==
  /\ md_pc = "find"
  /\ md_exit = NoInt
  /\ probed = <<>>
  /\ sub_inv = NoStr
  /\ submissions = <<>>
  /\ idx = 0
  /\ rows = <<>>
  /\ flagged_low_score_accept = <<>>
  /\ paper_no = NoInt
  /\ decision = NoStr
  /\ decision_str = <<>>
  /\ reviews = <<>>
  /\ avg_score = NoNum
  /\ accepted = FALSE
  /\ sea_decisions_csv = NotWritten
  /\ sea_flagged_csv = NotWritten

\* the script is not run
MdIdle ==
  /\ md_pc = "off"
  /\ md_exit = NoInt
  /\ probed = <<>>
  /\ sub_inv = NoStr
  /\ submissions = <<>>
  /\ idx = 0
  /\ rows = <<>>
  /\ flagged_low_score_accept = <<>>
  /\ paper_no = NoInt
  /\ decision = NoStr
  /\ decision_str = <<>>
  /\ reviews = <<>>
  /\ avg_score = NoNum
  /\ accepted = FALSE
  /\ sea_decisions_csv = NotWritten
  /\ sea_flagged_csv = NotWritten
  /\ server_invitations = {}
  /\ server_submissions = <<>>

MdNext ==
  \/ ProbeFound
  \/ ProbeMissing
  \/ NoInvitation
  \/ FetchSubmissions
  \/ ProcessSubmission
  \/ WriteCsvs

(***************************************************************************)
(* extract_author_ids.py                                                   *)
(***************************************************************************)
\* the printable ASCII characters in code order (the back quote left out), for
\* sorted() of strings
AsciiChars ==
  <<
    " ","!","\"","#","$","%","&","'","(",")","*","+",",","-",".","/",
    "0","1","2","3","4","5","6","7","8","9",":",";","<","=",">","?",
    "@","A","B","C","D","E","F","G","H","I","J","K","L","M","N","O",
    "P","Q","R","S","T","U","V","W","X","Y","Z","[","\\","]","^","_",
    "a","b","c","d","e","f","g","h","i","j","k","l","m","n","o",
    "p","q","r","s","t","u","v","w","x","y","z","{","|","}","~" >>

CharCode(c) ==
  IF \E i \in DOMAIN AsciiChars : AsciiChars[i] = c
    THEN CHOOSE i \in DOMAIN AsciiChars : AsciiChars[i] = c
    ELSE 0

\* a < b for Python strings
RECURSIVE StrLess(_, _)
StrLess(a, b) ==
  IF b = <<>> THEN FALSE
  ELSE IF a = <<>> THEN TRUE
  ELSE IF a[1] = b[1] THEN StrLess(Tail(a), Tail(b))
  ELSE CharCode(a[1]) < CharCode(b[1])

\* sorted(S) of a set of strings
RECURSIVE SortedStrings(_)
SortedStrings(S) ==
  IF S = {} THEN <<>>
  ELSE LET m == CHOOSE x \in S : \A y \in S : y = x \/ StrLess(x, y)
       IN <<m>> \o SortedStrings(S \ {m})

\* mutation: the pattern without its digits, ^~.+$
TildeMatch_NoDigits(m) ==
  \E e \in {Len(m)} \cup (IF m # <<>> /\ m[Len(m)] = "\n" THEN {Len(m) - 1} ELSE {}) :
    /\ e >= 2
    /\ m[1] = "~"
    /\ \A k \in 2..e : m[k] # "\n"

\* TILDE_RE.match(m) for TILDE_RE = ^~.+\d+$ : "~", one or more characters
\* other than a newline, one or more digits, then the end of the string or its
\* final newline
TildeMatch(m) ==
  \E e \in {Len(m)} \cup (IF m # <<>> /\ m[Len(m)] = "\n" THEN {Len(m) - 1} ELSE {}) :
    \E i \in 2..(e - 1) :
      /\ m[1] = "~"
      /\ \A k \in 2..i : m[k] # "\n"
      /\ \A k \in (i + 1)..e : IsDigit(m[k])

\* the profile the server holds for a member reference that is no profile id
ServerProfileOf(member) ==
  CASE member = <<"a","@","x">> -> SomeStr(<<"~","a","2">>)
    [] member = <<"b","@","x">> -> SomeStr(<<"~","a","1">>)
    [] OTHER -> NoStr

\* openreview.tools.get_profiles(client, unknowns): one profile or None each
GetProfiles(unknowns) == [i \in 1..Len(unknowns) |-> ServerProfileOf(unknowns[i])]

\* unknowns = [m for m in members if m not in tilde_ids]
UnknownsOf(members) == SelectSeq(members, LAMBDA m : ~TildeMatch(m))

resolve_to_profile_ids(members) ==
  LET tilde_ids == {members[i] : i \in {j \in DOMAIN members : TildeMatch(members[j])}}
      unknowns == UnknownsOf(members)
      profiles == GetProfiles(unknowns)
  IN IF unknowns # <<>>
       THEN tilde_ids \cup {profiles[i].s :
                              i \in {j \in DOMAIN profiles :
                                       profiles[j].some /\ profiles[j].s # <<>>}}
       ELSE tilde_ids

\* len(client.get_all_notes(content={"authorids": profile_id}))
count_submissions(profile_id) ==
  IF profile_id = <<"~","a","1">> THEN 3 ELSE IF profile_id = <<"~","a","2">> THEN 1 ELSE 0

\* grp.members or []
MembersOf(grp) == IF grp.has_members THEN grp.members ELSE <<>>

EaFrame == UNCHANGED << server_groups, server_profiles_down, author_groups >>

\* get_group and resolve_to_profile_ids return
GroupResolved ==
  /\ ea_pc = "groups"
  /\ g_idx < Len(author_groups)
  /\ LET grp == server_groups[author_groups[g_idx + 1]]
         unknowns == UnknownsOf(MembersOf(grp))
     IN /\ grp.exists
        /\ unknowns = <<>> \/ ~server_profiles_down
        /\ resolved' = resolve_to_profile_ids(MembersOf(grp))
        /\ all_profile_ids' = all_profile_ids \cup resolved'
        /\ server_profile_requests' =
             IF unknowns # <<>> THEN Append(server_profile_requests, unknowns)
             ELSE server_profile_requests
  /\ g_idx' = g_idx + 1
  /\ EaFrame
  /\ UNCHANGED << ea_pc, missing_groups, submissions_counter, author_ids_json >>
  /\ UNCHANGED << md_vars, ap_vars >>

\* mutation: the exception ends the loop over the groups
GroupNotFound_Stops ==
  /\ ea_pc = "groups"
  /\ g_idx < Len(author_groups)
  /\ ~server_groups[author_groups[g_idx + 1]].exists
  /\ missing_groups' = Append(missing_groups,
                              [gid |-> author_groups[g_idx + 1], error |-> "Group Not Found"])
  /\ g_idx' = Len(author_groups)
  /\ EaFrame
  /\ UNCHANGED << ea_pc, all_profile_ids, resolved, server_profile_requests,
                  submissions_counter, author_ids_json >>
  /\ UNCHANGED << md_vars, ap_vars >>

\* get_group raises OpenReviewException: the group is recorded as missing
GroupNotFound ==
  /\ ea_pc = "groups"
  /\ g_idx < Len(author_groups)
  /\ ~server_groups[author_groups[g_idx + 1]].exists
  /\ missing_groups' = Append(missing_groups,
                              [gid |-> author_groups[g_idx + 1], error |-> "Group Not Found"])
  /\ g_idx' = g_idx + 1
  /\ EaFrame
  /\ UNCHANGED << ea_pc, all_profile_ids, resolved, server_profile_requests,
                  submissions_counter, author_ids_json >>
  /\ UNCHANGED << md_vars, ap_vars >>

\* get_profiles raises OpenReviewException inside resolve_to_profile_ids:
\* nothing is added and the group is recorded as missing
ProfilesUnavailable ==
  /\ ea_pc = "groups"
  /\ g_idx < Len(author_groups)
  /\ LET grp == server_groups[author_groups[g_idx + 1]]
         unknowns == UnknownsOf(MembersOf(grp))
     IN /\ grp.exists
        /\ unknowns # <<>>
        /\ server_profiles_down
        /\ server_profile_requests' = Append(server_profile_requests, unknowns)
  /\ missing_groups' = Append(missing_groups,
                              [gid |-> author_groups[g_idx + 1], error |-> "Service Unavailable"])
  /\ g_idx' = g_idx + 1
  /\ EaFrame
  /\ UNCHANGED << ea_pc, all_profile_ids, resolved, submissions_counter, author_ids_json >>
  /\ UNCHANGED << md_vars, ap_vars >>

\* one iteration of the loop over sorted(all_profile_ids)
CountSubmissions ==
  /\ ea_pc = "groups"
  /\ g_idx = Len(author_groups)
  /\ Len(submissions_counter) < Cardinality(all_profile_ids)
  /\ LET pid == SortedStrings(all_profile_ids)[Len(submissions_counter) + 1]
         n_subs == count_submissions(pid)
     IN submissions_counter' =
          IF n_subs >= 0 THEN Append(submissions_counter, [pid |-> pid, n_subs |-> n_subs])
          ELSE submissions_counter
  /\ EaFrame
  /\ UNCHANGED << ea_pc, g_idx, all_profile_ids, missing_groups, resolved,
                  server_profile_requests, author_ids_json >>
  /\ UNCHANGED << md_vars, ap_vars >>

\* json.dump(submissions_counter, f)
WriteAuthorIds ==
  /\ ea_pc = "groups"
  /\ g_idx = Len(author_groups)
  /\ Len(submissions_counter) = Cardinality(all_profile_ids)
  /\ author_ids_json' = Written(submissions_counter)
  /\ ea_pc' = "done"
  /\ EaFrame
  /\ UNCHANGED << g_idx, all_profile_ids, missing_groups, resolved,
                  server_profile_requests, submissions_counter >>
  /\ UNCHANGED << md_vars, ap_vars >>

EaStart ==
  /\ g_idx = 0
  /\ all_profile_ids = {}
  /\ missing_groups = <<>>
  /\ resolved = {}
  /\ server_profile_requests = <<>>
  /\ submissions_counter = <<>>
  /\ author_ids_json = NotWritten

EaInit == ea_pc = "groups" /\ EaStart

\* the script is not run
EaIdle ==
  /\ ea_pc = "off"
  /\ EaStart
  /\ server_groups = <<>>
  /\ server_profiles_down = FALSE
  /\ author_groups = <<>>

EaNext ==
  \/ GroupResolved
  \/ GroupNotFound
  \/ ProfilesUnavailable
  \/ CountSubmissions
  \/ WriteAuthorIds

(***************************************************************************)
(* extract_accepted_papers.py                                              *)
(***************************************************************************)
\* content.get(key, default), unwrapped with val.get("value", default)
GetField(note, key, default) ==
  LET content == ContentOf(note)
      raw == IF HasKey(content, key) THEN GetKey(content, key) ELSE default
  IN IF IsDict(raw)
       THEN (IF raw.w = "wrapped" THEN [raw EXCEPT !.w = "plain"] ELSE default)
       ELSE raw

\* get_paper_number of extract_accepted_papers.py: the same loop over the
\* content fields as in make_decision.py, and -1 when it finds none
accepted_get_paper_number(note) ==
  IF note.number.some THEN note.number.v
  ELSE IF NumberFromContent(ContentOf(note), 1).some
    THEN NumberFromContent(ContentOf(note), 1).v
    ELSE -1

get_title(note) == StrStrip(PyStr(GetField(note, <<"t","i","t","l","e">>, VStr(<<>>))))

get_authors(note) ==
  LET authors == GetField(note, <<"a","u","t","h","o","r","s">>, VList(<<>>))
  IN IF authors.t = "list" THEN StrJoin(<<","," ">>, authors.l)
     ELSE StrStrip(PyStr(authors))

get_venue_field(note) == StrStrip(PyStr(GetField(note, <<"v","e","n","u","e">>, VStr(<<>>))))

\* mutation: "poster" is tested before "oral"
PresentationType_PosterFirst(field) ==
  LET venue_lower == StrLower(field)
  IN IF StrContains(venue_lower, <<"p","o","s","t","e","r">>) THEN "Poster"
     ELSE IF StrContains(venue_lower, <<"o","r","a","l">>) THEN "Oral"
     ELSE ""

\* pres_type of main
PresentationType(field) ==
  LET venue_lower == StrLower(field)
  IN IF StrContains(venue_lower, <<"o","r","a","l">>) THEN "Oral"
     ELSE IF StrContains(venue_lower, <<"p","o","s","t","e","r">>) THEN "Poster"
     ELSE ""

ApFrame == UNCHANGED << server_venue_notes >>

\* venue_notes = list(iterget_notes(client, content={"venueid": VENUE_ID}))
FetchVenueNotes ==
  /\ ap_pc = "fetch"
  /\ venue_notes' = server_venue_notes
  /\ ap_pc' = "loop"
  /\ ApFrame
  /\ UNCHANGED << ap_idx, venue_field, pres_type, accepted_papers, output_csv >>
  /\ UNCHANGED << md_vars, ea_vars >>

\* one iteration of the loop over venue_notes
ProcessVenueNote ==
  /\ ap_pc = "loop"
  /\ ap_idx < Len(venue_notes)
  /\ LET note == venue_notes[ap_idx + 1]
     IN /\ venue_field' = get_venue_field(note)
        /\ pres_type' = PresentationType(venue_field')
        /\ accepted_papers' =
             Append(accepted_papers,
                    [paper_number |-> accepted_get_paper_number(note),
                     title |-> get_title(note),
                     authors |-> get_authors(note),
                     presentation_type |-> pres_type'])
  /\ ap_idx' = ap_idx + 1
  /\ ApFrame
  /\ UNCHANGED << ap_pc, venue_notes, output_csv >>
  /\ UNCHANGED << md_vars, ea_vars >>

\* the CSV file is written when there is an accepted paper
WriteAccepted ==
  /\ ap_pc = "loop"
  /\ ap_idx = Len(venue_notes)
  /\ IF accepted_papers # <<>>
       THEN \E sorted \in SortedRows(accepted_papers) : output_csv' = Written(sorted)
       ELSE output_csv' = output_csv
  /\ ap_pc' = "done"
  /\ ApFrame
  /\ UNCHANGED << venue_notes, ap_idx, venue_field, pres_type, accepted_papers >>
  /\ UNCHANGED << md_vars, ea_vars >>

ApStart ==
  /\ venue_notes = <<>>
  /\ ap_idx = 0
  /\ venue_field = <<>>
  /\ pres_type = ""
  /\ accepted_papers = <<>>
  /\ output_csv = NotWritten

ApInit == ap_pc = "fetch" /\ ApStart

\* the script is not run
ApIdle == ap_pc = "off" /\ ApStart /\ server_venue_notes = <<>>

ApNext ==
  \/ FetchVenueNotes
  \/ ProcessVenueNote
  \/ WriteAccepted

(***************************************************************************)
(* Bounded inputs of make_decision.py: what the server returns             *)
(***************************************************************************)
MaxReplies == 2

MaxMetas == 3

MaxSubs == 2

KV(key, val) == [k |-> key, v |-> val]

Reply(label, created, fields) ==
  [invitations |-> label, cdate |-> created, has_content |-> TRUE, content |-> fields]

Submission(num, fields, thread) ==
  [number |-> num, has_content |-> TRUE, content |-> fields, replies |-> thread]

\* invitations of a reply: one label under the submission's prefix
Label(word) == << <<"S","1","/","-","/">> \o word >>

s_Official_Review == <<"O","f","f","i","c","i","a","l","_","R","e","v","i","e","w">>

s_REVIEW == <<"R","E","V","I","E","W">>

s_Meta_Review == <<"M","e","t","a","_","R","e","v","i","e","w">>

s_Meta_dash_Review == <<"M","e","t","a","-","R","e","v","i","e","w">>

s_meta_review == <<"m","e","t","a","_","r","e","v","i","e","w">>

s_META_REVIEW == <<"M","E","T","A","_","R","E","V","I","E","W">>

s_Decision == <<"D","e","c","i","s","i","o","n">>

s_Official_Comment == <<"O","f","f","i","c","i","a","l","_","C","o","m","m","e","n","t">>

s_Accept == <<"A","c","c","e","p","t">>

s_Reject == <<"R","e","j","e","c","t">>

s_accept_poster == <<"a","c","c","e","p","t"," ","(","p","o","s","t","e","r",")">>

s_Accept_padded == <<" ","A","c","c","e","p","t"," ","(","O","r","a","l",")","\n">>

s_blank == <<" "," ">>

s_6_Weak_Accept == <<"6",":"," ","W","e","a","k"," ","A","c","c","e","p","t">>

s_2 == <<"2">>

s_3 == <<"3">>

s_4 == <<"4">>

s_5 == <<" ","5">>

s_4_5_x == <<"4",".","5",":"," ","x">>

s_Borderline == <<"B","o","r","d","e","r","l","i","n","e">>

s_7 == <<"7">>

s_x7 == <<"x","7">>

k_rating == <<"r","a","t","i","n","g">>

k_Rating == <<"R","a","t","i","n","g">>

k_recommendation == <<"r","e","c","o","m","m","e","n","d","a","t","i","o","n">>

k_overall == <<"o","v","e","r","a","l","l">>

k_overall_score == <<"o","v","e","r","a","l","l","_","s","c","o","r","e">>

k_Overall_Recommendation == <<"O","v","e","r","a","l","l"," ","R","e","c","o","m","m","e","n","d","a","t","i","o","n">>

k_final_recommendation == <<"f","i","n","a","l","_","r","e","c","o","m","m","e","n","d","a","t","i","o","n">>

k_final_decision == <<"f","i","n","a","l"," ","d","e","c","i","s","i","o","n">>

k_decision == <<"d","e","c","i","s","i","o","n">>

k_Recommendation == <<"R","e","c","o","m","m","e","n","d","a","t","i","o","n">>

k_number == <<"n","u","m","b","e","r">>

k_paper_number == <<"p","a","p","e","r","_","n","u","m","b","e","r">>

\* the labels replies carry
ReplyLabels ==
  { Label(s_Official_Review), Label(s_REVIEW), Label(s_Meta_Review),
    Label(s_Meta_dash_Review), Label(s_meta_review), Label(s_META_REVIEW),
    Label(s_Decision), Label(s_Official_Comment), <<>> }

\* contents of review notes: the score under one field or another
ReviewContents ==
  { << KV(k_rating, VStr(s_6_Weak_Accept)) >>,
    << KV(k_rating, Wrapped(VStr(s_3))) >>,
    << KV(k_recommendation, VStr(s_2)) >>,
    << KV(k_overall, VInt(7)) >>,
    << KV(k_Rating, VStr(s_4)) >>,
    << KV(k_rating, VStr(s_Borderline)), KV(k_overall_score, VStr(s_5)) >>,
    << KV(k_rating, VStr(s_Borderline)) >>,
    << KV(k_rating, VFloat(39, 10)) >>,
    << KV(k_Overall_Recommendation, Wrapped(VStr(s_4_5_x))) >>,
    << KV(k_rating, DictNoValue) >>,
    << >> }

\* contents of meta-review notes: the decision under one field or another
DecisionContents ==
  { << KV(k_recommendation, VStr(s_Accept)) >>,
    << KV(k_recommendation, Wrapped(VStr(s_Reject))) >>,
    << KV(k_recommendation, VStr(s_Accept_padded)) >>,
    << KV(k_recommendation, VStr(<<>>)), KV(k_decision, VStr(s_Accept)) >>,
    << KV(k_recommendation, Wrapped(VStr(<<>>))), KV(k_final_recommendation, VStr(s_Reject)) >>,
    << KV(k_decision, VStr(s_accept_poster)), KV(k_final_decision, VStr(s_Reject)) >>,
    << KV(k_recommendation, DictNoValue) >>,
    << KV(k_recommendation, VStr(s_blank)) >>,
    << KV(k_recommendation, VInt(1)) >>,
    << KV(k_Recommendation, VStr(s_Accept)) >>,
    << >> }

Cdates == { NoInt, SomeInt(0), SomeInt(100), SomeInt(200) }

NoContent(note) == [note EXCEPT !.has_content = FALSE, !.content = <<>>]

\* replies that differ in their label
LabelNotes ==
  { Reply(l, SomeInt(100), << KV(k_recommendation, VStr(s_Accept)), KV(k_rating, VStr(s_3)) >>) :
      l \in ReplyLabels }

\* meta-reviews that differ in their creation time and decision
TimedMetaNotes ==
  { Reply(Label(s_Meta_Review), c, f) :
      c \in Cdates,
      f \in { << KV(k_recommendation, VStr(s_Accept)) >>,
              << KV(k_recommendation, Wrapped(VStr(s_Reject))) >> } }

\* meta-reviews that differ in their content
MetaNotes ==
  { Reply(Label(s_Meta_dash_Review), SomeInt(100), f) : f \in DecisionContents }
    \cup { NoContent(Reply(Label(s_Meta_Review), SomeInt(100), <<>>)) }

\* reviews that differ in their content
ReviewNotes ==
  { Reply(Label(s_Official_Review), SomeInt(100), f) : f \in ReviewContents }
    \cup { NoContent(Reply(Label(s_Official_Review), SomeInt(100), <<>>)) }

\* one submission, numbered 1, with the given thread
OneSubmission(thread) == << Submission(SomeInt(1), <<>>, thread) >>

\* the threads of the thread-level checks: any replies, in any order
ThreadInputs ==
  { OneSubmission(t) :
      t \in SeqsUpTo(LabelNotes \cup MetaNotes \cup ReviewNotes, MaxReplies) }

\* the threads of the meta-review selection: meta-reviews of several
\* creation times beside a review and a reply that is no meta-review
SelectInputs ==
  { OneSubmission(t) :
      t \in SeqsUpTo(TimedMetaNotes
                       \cup { Reply(Label(s_Official_Review), SomeInt(200),
                                    << KV(k_rating, VStr(s_3)) >>),
                              Reply(Label(s_Decision), SomeInt(200),
                                    << KV(k_recommendation, VStr(s_Reject)) >>) },
                     MaxMetas) }

Meta(text) == Reply(Label(s_Meta_Review), SomeInt(100), << KV(k_recommendation, VStr(text)) >>)

Review(val) == Reply(Label(s_Official_Review), SomeInt(100), << KV(k_rating, val) >>)

\* threads with a decision and reviews around the 4.0 threshold
DecidedThreads ==
  { << Meta(s_Accept), Review(VFloat(39, 10)) >>,
    << Meta(s_Accept), Review(VStr(s_4)) >>,
    << Review(VStr(s_3)), Meta(s_accept_poster), Review(VStr(s_5)) >>,
    << Review(VStr(s_3)), Meta(s_Accept_padded), Review(VStr(s_4)) >>,
    << Meta(s_Reject), Review(VStr(s_2)) >>,
    << Meta(s_Accept) >>,
    << Review(VStr(s_3)) >> }

\* submissions: numbered by the server, or with no number and the number,
\* if any, in the content
SubmissionPool ==
  { Submission(SomeInt(n), <<>>, t) : n \in 1..2, t \in DecidedThreads }
    \cup { Submission(NoInt, f, t) :
             f \in { <<>>,
                     << KV(k_number, VStr(s_x7)), KV(k_paper_number, Wrapped(VStr(s_7))) >> },
             t \in DecidedThreads }

\* the venue numbers its papers: no paper number that a submission carries,
\* as note.number or in its content, comes twice
MainInputs ==
  { subs \in SeqsUpTo(SubmissionPool, MaxSubs) :
      \A i, j \in DOMAIN subs :
        (i # j /\ get_paper_number(subs[i]).some /\ get_paper_number(subs[j]).some)
          => get_paper_number(subs[i]).v # get_paper_number(subs[j]).v }

(***************************************************************************)
(* Specifications of make_decision.py                                      *)
(***************************************************************************)
\* a venue with none of the candidate invitations, or one with the second and
\* the given submissions
MdInputs(inputs) ==
  \/ server_invitations = {} /\ server_submissions = <<>>
  \/ server_invitations = {candidates[2]} /\ server_submissions \in inputs

InitInvitation ==
  /\ MdInit /\ EaIdle /\ ApIdle
  /\ server_invitations \in SUBSET {candidates[i] : i \in DOMAIN candidates}
  /\ server_submissions \in { <<>>, OneSubmission(<<>>),
                              OneSubmission(<< Meta(s_Accept), Review(VStr(s_3)) >>) }

InitThread == MdInit /\ EaIdle /\ ApIdle /\ MdInputs(ThreadInputs)

InitSelect == MdInit /\ EaIdle /\ ApIdle /\ MdInputs(SelectInputs)

InitMain == MdInit /\ EaIdle /\ ApIdle /\ MdInputs(MainInputs)

SpecInvitation == InitInvitation /\ [][MdNext]_vars

SpecThread == InitThread /\ [][MdNext]_vars

SpecSelect == InitSelect /\ [][MdNext]_vars

SpecMain == InitMain /\ [][MdNext]_vars

(***************************************************************************)
(* Properties of make_decision.py                                          *)
(***************************************************************************)
\* the submission the loop has just processed
Processed == md_pc \in {"loop", "exit"} /\ idx >= 1

CurrentReplies == submissions[idx].replies

\* the first field of score_fields, in priority order, that yields a score
RECURSIVE FirstParseableScore(_, _)
FirstParseableScore(content, k) ==
  IF k > Len(score_fields) THEN NoNum
  ELSE IF KeyScore(content, score_fields[k]).some THEN KeyScore(content, score_fields[k])
  ELSE FirstParseableScore(content, k + 1)

\* one score per review that has a parseable score
RECURSIVE ScorePerReview(_)
ScorePerReview(review_notes) ==
  IF review_notes = <<>> THEN <<>>
  ELSE LET sc == FirstParseableScore(ContentOf(review_notes[1]), 1)
       IN (IF sc.some THEN <<sc>> ELSE <<>>) \o ScorePerReview(Tail(review_notes))

MeanOfScores(scores) ==
  IF scores = <<>> THEN NoNum
  ELSE SomeNum(SumScores(scores).n, SumScores(scores).d * Len(scores))

\* C1: the average of a thread's reviews is the arithmetic mean of one score per
\* review that has a parseable score under any of the candidate fields, whatever
\* the order of the reviews and the field each uses; None only when no review
\* yields a score.
C1_AverageIsMeanOfParseableScores ==
  Processed => NumEq(avg_score, MeanOfScores(ScorePerReview(reviews)))

\* the first meta-review, in the order of the replies, among those of the
\* greatest creation time (a missing one counts as 0)
FirstOfMaxCdate(metas) ==
  metas[CHOOSE i \in DOMAIN metas :
          /\ \A j \in DOMAIN metas : CdateKey(metas[j]) <= CdateKey(metas[i])
          /\ \A j \in 1..(i - 1) : CdateKey(metas[j]) < CdateKey(metas[i])]

\* C2: with several meta-reviews the decision text is that of the one with the
\* greatest creation time (a missing time counts as 0), in whatever order the
\* server returns them; with no meta-review the decision is None.
C2_LatestMetaReviewDecides ==
  Processed =>
    LET metas == SelectSeq(CurrentReplies, IsMetaReviewInvitation)
    IN IF metas = <<>> THEN decision = NoStr
       ELSE /\ decision = DecisionFromContent(ContentOf(FirstOfMaxCdate(metas)), 1)
            /\ \E i \in DOMAIN metas :
                 /\ \A j \in DOMAIN metas : CdateKey(metas[j]) <= CdateKey(metas[i])
                 /\ decision = DecisionFromContent(ContentOf(metas[i]), 1)

\* C2 witness: the later of two meta-reviews comes second and decides
C2_Witness ==
  /\ Processed
  /\ LET metas == SelectSeq(CurrentReplies, IsMetaReviewInvitation)
     IN /\ Len(metas) >= 2
        /\ CdateKey(metas[1]) = 100
        /\ CdateKey(metas[2]) = 200
        /\ DecisionFromContent(ContentOf(metas[1]), 1) = SomeStr(s_Accept)
        /\ decision = SomeStr(s_Reject)

\* C3: a paper number is appended to the low-score-accept list exactly when the
\* decision text starts with "accept" in any letter case, the average is not
\* None and the average is strictly below 4.0.
C3_FlagIffAcceptAndBelowFour ==
  [][ (md_pc = "loop" /\ idx' = idx + 1) =>
        LET low == /\ decision'.some
                   /\ StrStartsWith(StrLower(decision'.s), <<"a","c","c","e","p","t">>)
                   /\ avg_score'.some
                   /\ avg_score'.n < 4 * avg_score'.d
        IN flagged_low_score_accept' =
             IF low THEN Append(flagged_low_score_accept, paper_no'.v)
             ELSE flagged_low_score_accept ]_vars

\* C3 witness: one accept below 4.0 is flagged, an accept of exactly 4.0 is not
C3_Witness ==
  /\ md_pc = "loop"
  /\ idx = 2
  /\ Len(flagged_low_score_accept) = 1
  /\ accepted
  /\ avg_score.some
  /\ avg_score.n = 4 * avg_score.d

\* C4: the decision rows hold at most one row per paper number, also when
\* submissions have no resolvable number and fall back to -1.
C4_OneRowPerPaperNumber ==
  sea_decisions_csv.written =>
    \A i, j \in DOMAIN rows : i # j => rows[i].paper_number # rows[j].paper_number

FirstExisting ==
  CHOOSE i \in DOMAIN candidates :
    /\ candidates[i] \in server_invitations
    /\ \A j \in 1..(i - 1) : candidates[j] \notin server_invitations

NoneExists == \A i \in DOMAIN candidates : candidates[i] \notin server_invitations

\* C5: the candidates are probed in their priority order, the first that exists
\* is returned and none after it is probed; when none exists the run ends with
\* a non-zero exit status, before any submission is fetched or file written.
C5_FirstExistingInvitationOrAbort ==
  /\ \A i \in DOMAIN probed : probed[i] = candidates[i]
  /\ sub_inv.some =>
       /\ ~NoneExists
       /\ sub_inv.s = candidates[FirstExisting]
       /\ Len(probed) = FirstExisting
  /\ md_pc \in {"fetch", "loop"} => sub_inv.some
  /\ (md_pc = "exit" /\ ~NoneExists) => (sub_inv.some /\ md_exit = SomeInt(0))
  /\ NoneExists =>
       /\ md_pc \in {"find", "exit"}
       /\ submissions = <<>>
       /\ ~sea_decisions_csv.written
       /\ ~sea_flagged_csv.written
       /\ md_pc = "exit" => (md_exit.some /\ md_exit.v # 0 /\ Len(probed) = Len(candidates))

\* C5 witness: the third candidate is the first that exists, a later one exists
\* too, and the run went on to write its files
C5_Witness ==
  /\ candidates[3] \in server_invitations
  /\ candidates[5] \in server_invitations
  /\ sub_inv = SomeStr(candidates[3])
  /\ Len(probed) = 3
  /\ sea_decisions_csv.written

\* a label that contains "meta_review" or "meta-review" in any letter case
IsMetaLabelAnyCase(note) ==
  LET inv == StrLower(IF note.invitations # <<>> THEN note.invitations[1] ELSE <<>>)
  IN \/ StrContains(inv, <<"m","e","t","a","_","r","e","v","i","e","w">>)
     \/ StrContains(inv, <<"m","e","t","a","-","r","e","v","i","e","w">>)

\* a label that contains "review" in any letter case
IsReviewLabelAnyCase(note) ==
  StrContains(StrLower(IF note.invitations # <<>> THEN note.invitations[1] ELSE <<>>),
              <<"r","e","v","i","e","w">>)

\* C8: both classes are decided by a case-insensitive substring test: the
\* reviews are the replies whose label contains "review", the meta-decisions
\* those whose label contains "meta_review" or "meta-review", in any letter case.
C8_LabelsMatchInAnyCase ==
  Processed =>
    /\ reviews = SelectSeq(CurrentReplies, IsReviewLabelAnyCase)
    /\ LET metas == SelectSeq(CurrentReplies, IsMetaLabelAnyCase)
       IN decision = IF metas = <<>> THEN NoStr
                     ELSE DecisionFromContent(ContentOf(LatestMetaReview(metas)), 1)

\* the first field of decision_fields, in priority order, with a non-empty value
RECURSIVE FirstNonEmptyDecision(_, _)
FirstNonEmptyDecision(content, k) ==
  IF k > Len(decision_fields) THEN NoStr
  ELSE LET raw == IF HasKey(content, decision_fields[k])
                    THEN GetKey(content, decision_fields[k]) ELSE VNone
           val == IF IsDict(raw) THEN DictGetValueOrEmpty(raw) ELSE raw
       IN IF PyTruthy(val) THEN SomeStr(StrStrip(PyStr(val)))
          ELSE FirstNonEmptyDecision(content, k + 1)

\* C10: on the selected meta-review the candidate fields are tried in order
\* until one yields a value, unwrapped and trimmed; None only when no field
\* yields a non-empty value, so an empty field of higher priority does not hide
\* a non-empty one of lower priority.
C10_FirstNonEmptyFieldDecides ==
  Processed =>
    LET metas == SelectSeq(CurrentReplies, IsMetaReviewInvitation)
    IN metas # <<>> =>
         decision = FirstNonEmptyDecision(ContentOf(LatestMetaReview(metas)), 1)

(***************************************************************************)
(* Bounded inputs of extract_author_ids.py                                 *)
(***************************************************************************)
MaxGroups == 3

MaxMembers == 3

m_a1 == <<"~","a","1">>

m_b7_nl == <<"~","b","7","\n">>

m_email_a == <<"a","@","x">>

m_email_b == <<"b","@","x">>

m_tilde_a == <<"~","a">>

Group(ms) == [exists |-> TRUE, has_members |-> TRUE, members |-> ms]

NoGroup == [exists |-> FALSE, has_members |-> FALSE, members |-> <<>>]

\* a group whose members field is None
GroupNoMembers == [exists |-> TRUE, has_members |-> FALSE, members |-> <<>>]

\* the groups of the venue: two with members, one with none, two that the
\* server does not know
VenueGroups ==
  [g \in {"SEA/Authors", "SEA/Submission1/Authors", "SEA/Reviewers", "SEA/Nope", "SEA/Gone"} |->
     CASE g = "SEA/Authors" -> Group(<<m_a1, m_email_a>>)
       [] g = "SEA/Submission1/Authors" -> Group(<<m_email_b, m_tilde_a, m_email_b>>)
       [] g = "SEA/Reviewers" -> GroupNoMembers
       [] OTHER -> NoGroup]

\* any configured list of the venue's groups, a group possibly twice
InitAuthors ==
  /\ EaInit /\ MdIdle /\ ApIdle
  /\ server_groups = VenueGroups
  /\ server_profiles_down \in BOOLEAN
  /\ author_groups \in SeqsUpTo(DOMAIN VenueGroups, MaxGroups)

\* one configured group, with any members in any order, or unknown
InitResolve ==
  /\ EaInit /\ MdIdle /\ ApIdle
  /\ server_profiles_down \in BOOLEAN
  /\ author_groups = <<"SEA/Authors">>
  /\ server_groups \in
       { [g \in {"SEA/Authors"} |-> grp] :
           grp \in {NoGroup, GroupNoMembers}
                     \cup { Group(ms) :
                              ms \in SeqsUpTo({m_a1, m_b7_nl, m_email_a, m_email_b, m_tilde_a},
                                              MaxMembers) } }

SpecAuthors == InitAuthors /\ [][EaNext]_vars

SpecResolve == InitResolve /\ [][EaNext]_vars

(***************************************************************************)
(* Properties of extract_author_ids.py                                     *)
(***************************************************************************)
\* a profile id: "~", at least one more character, a digit at the end (the
\* end being before a final newline, as for the pattern's $)
IsProfileId(m) ==
  LET body == IF m # <<>> /\ m[Len(m)] = "\n" THEN SubSeq(m, 1, Len(m) - 1) ELSE m
  IN /\ Len(body) >= 3
     /\ body[1] = "~"
     /\ IsDigit(body[Len(body)])
     /\ \A k \in 2..(Len(body) - 1) : body[k] # "\n"

\* the identifiers a member list stands for: a function of the set of members
IdsOfMembers(ms) ==
  LET M == {ms[i] : i \in DOMAIN ms}
  IN {m \in M : IsProfileId(m)}
       \cup {ServerProfileOf(m).s : m \in {x \in M : ~IsProfileId(x) /\ ServerProfileOf(x).some}}

ConfiguredGroup(k) == server_groups[author_groups[k]]

\* the lookup of the k-th configured group fails: the group is unknown, or its
\* members need the profile lookup and that is down
LookupFails(k) ==
  \/ ~ConfiguredGroup(k).exists
  \/ /\ server_profiles_down
     /\ \E i \in DOMAIN MembersOf(ConfiguredGroup(k)) :
          ~IsProfileId(MembersOf(ConfiguredGroup(k))[i])

\* the group ids at the failing positions among the first n, in order
RECURSIVE FailedGroups(_)
FailedGroups(n) ==
  IF n = 0 THEN <<>>
  ELSE FailedGroups(n - 1) \o (IF LookupFails(n) THEN <<author_groups[n]>> ELSE <<>>)

\* C6: a group whose lookup fails is recorded as missing exactly once, the
\* identifiers collected so far stay, and the remaining groups are processed:
\* the identifiers are the union over the groups whose lookup succeeded.
C6_FailedGroupSkippedOthersProcessed ==
  ea_pc # "off" =>
    /\ [i \in DOMAIN missing_groups |-> missing_groups[i].gid] = FailedGroups(g_idx)
    /\ all_profile_ids =
         UNION { IdsOfMembers(MembersOf(ConfiguredGroup(k))) :
                   k \in {j \in 1..g_idx : ~LookupFails(j)} }
    /\ (ea_pc = "done" \/ submissions_counter # <<>>) => g_idx = Len(author_groups)

\* C6 witness: the second of three groups failed, the first and the third
\* succeeded and both added identifiers
C6_Witness ==
  /\ ea_pc = "done"
  /\ Len(author_groups) = 3
  /\ LookupFails(2) /\ ~LookupFails(1) /\ ~LookupFails(3)
  /\ Len(missing_groups) = 1
  /\ IdsOfMembers(MembersOf(ConfiguredGroup(1))) # IdsOfMembers(MembersOf(ConfiguredGroup(3)))
  /\ IdsOfMembers(MembersOf(ConfiguredGroup(3))) # {}

\* the last group the loop processed
LastGroup == ConfiguredGroup(g_idx)

\* C7: resolve_to_profile_ids returns the members that match ^~.+\d+$ together
\* with the ids of the profiles found for the others; the result depends on the
\* set of members only, not on their order or repetition, and the batch lookup
\* is issued only when a member does not match.
C7_ResolveIsUnionOverMemberSet ==
  (ea_pc # "off" /\ g_idx >= 1) =>
    /\ ~LookupFails(g_idx) =>
         /\ resolved = IdsOfMembers(MembersOf(LastGroup))
         /\ \A i \in DOMAIN MembersOf(LastGroup) :
              IsProfileId(MembersOf(LastGroup)[i]) => MembersOf(LastGroup)[i] \in resolved
    /\ server_profile_requests =
         IF LastGroup.exists
              /\ \E i \in DOMAIN MembersOf(LastGroup) : ~IsProfileId(MembersOf(LastGroup)[i])
           THEN << SelectSeq(MembersOf(LastGroup), LAMBDA m : ~IsProfileId(m)) >>
           ELSE << >>

\* C7 witness: an e-mail address listed twice, before a profile id, resolves
\* to one more id
C7_Witness ==
  /\ ea_pc = "done"
  /\ MembersOf(ConfiguredGroup(1)) = <<m_email_a, m_a1, m_email_a>>
  /\ resolved = {m_a1, <<"~","a","2">>}
  /\ Len(server_profile_requests) = 1

(***************************************************************************)
(* Bounded inputs of extract_accepted_papers.py                            *)
(***************************************************************************)
MaxAccepted == 2

v_Oral == <<"S","E","A"," ","@"," ","N","e","u","r","I","P","S"," ","2","0","2","5"," ","O","r","a","l">>

v_Poster == <<"S","E","A"," ","@"," ","N","e","u","r","I","P","S"," ","2","0","2","5"," ","P","o","s","t","e","r">>

v_Workshop_Accept == <<"W","o","r","k","s","h","o","p"," ","A","c","c","e","p","t">>

v_ORAL == <<" ","O","R","A","L","\n">>

v_poster_oral == <<"p","o","s","t","e","r",","," ","t","h","e","n"," ","O","r","a","l">>

v_POSTER == <<"P","O","S","T","E","R"," ","s","e","s","s","i","o","n">>

v_Doctoral == <<"D","o","c","t","o","r","a","l"," ","C","o","n","s","o","r","t","i","u","m">>

a_Ann == <<"A","n","n">>

a_Bob == <<"B","o","b">>

t_Title == <<" ","A"," ","T","i","t","l","e"," ">>

VenueTexts == {v_Oral, v_Poster, v_Workshop_Accept, v_ORAL, v_poster_oral, v_POSTER, v_Doctoral, <<>>}

\* the forms the venue field comes in: plain, wrapped, None, a dict with no
\* "value", a list
VenueValues ==
  {VStr(t) : t \in VenueTexts} \cup {Wrapped(VStr(t)) : t \in VenueTexts}
    \cup {VNone, Wrapped(VNone), DictNoValue, VList(<<v_Oral>>)}

AcceptedNote(num, fields) == [number |-> num, has_content |-> TRUE, content |-> fields]

\* accepted notes: with each form of the venue field, with no venue field, with
\* no content, with no number
AcceptedPool ==
  { AcceptedNote(SomeInt(1),
                 << KV(<<"t","i","t","l","e">>, Wrapped(VStr(t_Title))),
                    KV(<<"a","u","t","h","o","r","s">>, Wrapped(VList(<<a_Ann, a_Bob>>))),
                    KV(<<"v","e","n","u","e">>, v) >>) : v \in VenueValues }
    \cup { AcceptedNote(SomeInt(1), << KV(<<"t","i","t","l","e">>, VStr(t_Title)) >>),
           NoContent(AcceptedNote(SomeInt(1), <<>>)),
           AcceptedNote(NoInt, << KV(<<"a","u","t","h","o","r","s">>, VStr(a_Ann)),
                                  KV(<<"v","e","n","u","e">>, VStr(v_Poster)) >>),
           AcceptedNote(NoInt, << KV(k_paper_number, VStr(s_7)),
                                  KV(<<"v","e","n","u","e">>, Wrapped(VStr(v_Oral))) >>) }

\* the server numbers its notes in the order it returns them
Numbered(notes) ==
  [i \in 1..Len(notes) |->
     IF notes[i].number.some THEN [notes[i] EXCEPT !.number = SomeInt(i)] ELSE notes[i]]

InitAccepted ==
  /\ ApInit /\ MdIdle /\ EaIdle
  /\ server_venue_notes \in {Numbered(ns) : ns \in SeqsUpTo(AcceptedPool, MaxAccepted)}

SpecAccepted == InitAccepted /\ [][ApNext]_vars

(***************************************************************************)
(* Properties of extract_accepted_papers.py                                *)
(***************************************************************************)
\* word, given in lower case, occurs in text in some letter case
OccursInAnyCase(text, word) ==
  \E i \in 0..(Len(text) - Len(word)) :
    \A k \in 1..Len(word) : LowerChar(text[i + k]) = word[k]

\* the venue text of a note whose venue field is a string, plain or wrapped
VenueTextOf(note) ==
  LET content == ContentOf(note)
      key == <<"v","e","n","u","e">>
  IN IF HasKey(content, key) /\ GetKey(content, key).t = "str" /\ GetKey(content, key).w # "nokey"
       THEN GetKey(content, key).s
       ELSE <<>>

HasTextVenue(note) ==
  LET content == ContentOf(note)
      key == <<"v","e","n","u","e">>
  IN ~HasKey(content, key) \/ GetKey(content, key).t = "str" \/ GetKey(content, key).w = "nokey"

\* C9: the presentation type is "Oral" when the venue text contains "oral" in
\* any letter case (also beside "poster"), else "Poster" when it contains
\* "poster", else the empty string; a missing or wrapped venue field never
\* raises: every note gets its row.
C9_PresentationTypeOfVenueText ==
  ap_pc # "off" =>
    /\ Len(accepted_papers) = ap_idx
    /\ ap_pc = "done" => ap_idx = Len(server_venue_notes)
    /\ \A i \in DOMAIN accepted_papers :
         /\ accepted_papers[i].presentation_type \in {"Oral", "Poster", ""}
         /\ HasTextVenue(venue_notes[i]) =>
              accepted_papers[i].presentation_type =
                IF OccursInAnyCase(VenueTextOf(venue_notes[i]), <<"o","r","a","l">>) THEN "Oral"
                ELSE IF OccursInAnyCase(VenueTextOf(venue_notes[i]), <<"p","o","s","t","e","r">>)
                  THEN "Poster"
                ELSE ""
    /\ ap_idx >= 1 =>
         pres_type =
           IF OccursInAnyCase(venue_field, <<"o","r","a","l">>) THEN "Oral"
           ELSE IF OccursInAnyCase(venue_field, <<"p","o","s","t","e","r">>) THEN "Poster"
           ELSE ""

\* C9 witness: a wrapped venue with both words is an oral, a note with no venue
\* field has the empty type, and the file is written
C9_Witness ==
  /\ ap_pc = "done"
  /\ output_csv.written
  /\ Len(accepted_papers) = 2
  /\ VenueTextOf(venue_notes[1]) = v_poster_oral
  /\ ContentOf(venue_notes[1])[3].v.w = "wrapped"
  /\ accepted_papers[1].presentation_type = "Oral"
  /\ ~HasKey(ContentOf(venue_notes[2]), <<"v","e","n","u","e">>)
  /\ accepted_papers[2].presentation_type = ""

====
